---- MODULE Spec2Model ----
(***************************************************************************)
(* MinerU-webui: the batch conversion pipeline of src/app.py and the       *)
(* helpers of src/utils.py (ParallelProcessor, ProgressTracker).           *)
(*                                                                         *)
(* PoolSpec     ParallelProcessor.process_items with an arbitrary job      *)
(*              function (returns a value, returns a failure, or raises)   *)
(* TrackerSpec  one ProgressTracker used by concurrent threads, update()   *)
(*              called with the default increment                          *)
(* TrackerAnySpec  the same, update(increment) with any small integer      *)
(* BatchSpec    MinerUWebConverter.batch_process_files: the pool running   *)
(*              process_file on every path, then the aggregation           *)
(* RunsSpec     concurrent batch_process_files calls on one converter      *)
(* DirSpec      concurrent callers of FileUtils.ensure_dir                 *)
(* CallbackSpec process_items with the callback invocation as an interval  *)
(***************************************************************************)
EXTENDS Integers, Sequences, FiniteSets, TLC

\* ------------------------------------------------------------------ bounds
MaxItems == 3
MaxWorkers == 2
NThreads == 2
MaxCalls == 2
MaxTotal == 2
MaxFiles == 2
MaxClock == 1
NRuns == 2

\* The values an item of the input list may take (equal items are allowed).
ItemSet == {"a", "b"}

VARIABLES
    \* ---- ParallelProcessor.process_items
    items,        \* the list handed to process_items
    max_workers,  \* self.max_workers
    callback,     \* TRUE when a callback was passed (callback is not None)
    pc,           \* position of the thread that called process_items
    submitted,    \* how many items the dict comprehension has submitted
    queue,        \* the executor's work queue (indices of items, FIFO)
    fstate,       \* per future: "none" | "pending" | "running" | "finished"
    outcome,      \* per future: "none" | "ok" | "failure" | "raise"
    submits,      \* per item index: how many times it was handed to submit
    cur,          \* position of `for future in future_to_item`
    results,      \* the list process_items builds (index of the job whose result it is)
    cbLog,        \* the callback invocations, in order: [item, result]
    errLog,       \* number of logger.error calls of the except branch
    doneOrder     \* history: the futures in the order their jobs ended

poolVars == <<items, max_workers, callback, pc, submitted, queue, fstate,
              outcome, submits, cur, results, cbLog, errLog, doneOrder>>

VARIABLES
    \* ---- ProgressTracker
    trk,          \* "new" before __init__ ran, "live" after it returned
    total,        \* self.total
    current,      \* self.current
    lock,         \* self.lock: 0 when free, else the thread holding it
    tpc,          \* per thread: where it is inside update()
    tinc,         \* per thread: the increment of its update() call
    tmp,          \* per thread: the value of self.current it loaded
    snap,         \* per thread: the last snapshot a call returned ({} if none)
    ncalls,       \* per thread: update() calls made so far
    zeroDiv       \* TRUE once a call raised ZeroDivisionError

trackerVars == <<trk, total, current, lock, tpc, tinc, tmp, snap, ncalls, zeroDiv>>

VARIABLES
    \* ---- MinerUWebConverter.batch_process_files
    file_paths,   \* the list handed to batch_process_files
    bpc,          \* position of batch_process_files
    clock,        \* int(time.time()): the wall clock in whole seconds
    batch_id,     \* the second the batch task id was made from
    task_id,      \* per job: the second its task id was made from
    jpc,          \* per job: position of process_file
    dirs,         \* the directories that exist under output_dir
    fs,           \* the files under output_dir: path -> content
    archive,      \* the entries written into batch_results.zip
    agg,          \* position of `for i, result in enumerate(results)`
    scratch,      \* the live tempfile directories: result position -> files
    zipped        \* history: per job, the entries it packed into its zip

batchVars == <<file_paths, bpc, clock, batch_id, task_id, jpc, dirs, fs,
               archive, agg, scratch, zipped>>

VARIABLES
    \* ---- concurrent batch_process_files calls on the one converter
    rpc,          \* per call: "idle" | "named" | "pool" | "writing" | "done"
    rid,          \* per call: the second its batch task id was made from
    \* ---- concurrent callers of FileUtils.ensure_dir
    dpc,          \* per thread: "idle" | "create" | "ready" | "failed"
    dtgt,         \* per thread: the directory it passed to ensure_dir
    eres,         \* per thread: how its last ensure_dir call went
    derr          \* TRUE once an ensure_dir call raised

VARIABLES
    \* ---- the callback invocations of process_items, step by step
    cbRun         \* the invocations in progress: [job, thread]

cbVars == <<cbRun>>

runVars == <<rpc, rid>>
dirVars == <<dpc, dtgt, eres, derr>>

\* The batch variables other than the clock and the file system.
batchRest == <<file_paths, bpc, batch_id, task_id, jpc, archive, agg,
               scratch, zipped>>

vars == <<poolVars, trackerVars, batchVars, runVars, dirVars, cbVars>>

N == Len(items)
Idx == 1..N

\* ------------------------------------------------- ParallelProcessor

\* What a job function can do with an item.
Outcomes == {"ok", "failure", "raise"}

\* A job that handed a value back (a result or a returned failure marker).
Returned(o) == o \in {"ok", "failure"}

\* process_items has not been called.
PoolIdle ==
    /\ items = <<>>
    /\ max_workers = 1
    /\ callback = FALSE
    /\ pc = "idle"
    /\ submitted = 0
    /\ queue = <<>>
    /\ fstate = <<>>
    /\ outcome = <<>>
    /\ submits = <<>>
    /\ cur = 0
    /\ results = <<>>
    /\ cbLog = <<>>
    /\ errLog = 0
    /\ doneOrder = <<>>

\* multiprocessing.cpu_count() on the machine the program runs on.
CpuCount == 1

\* The default of ParallelProcessor.__init__: cpu_count() * 2.
DefaultWorkers == {CpuCount * 2}

\* The integer max_workers arguments a caller passes.
WorkerArgs == 0..MaxWorkers

\* ParallelProcessor.__init__: None takes the default cpu_count() * 2; an
\* integer argument is stored as it is, nothing is checked.
InitWorkers(isNone, w, d) == IF isNone THEN d ELSE w

\* A processor was constructed and process_items(items, ..., callback) called.
PoolStart ==
    /\ items \in UNION {[1..n -> ItemSet] : n \in 0..MaxItems}
    /\ max_workers \in {InitWorkers(n, w, d) :
                            n \in BOOLEAN, w \in WorkerArgs, d \in DefaultWorkers}
    /\ callback \in BOOLEAN
    /\ pc = "called"
    /\ submitted = 0
    /\ queue = <<>>
    /\ fstate = [i \in 1..Len(items) |-> "none"]
    /\ outcome = [i \in 1..Len(items) |-> "none"]
    /\ submits = [i \in 1..Len(items) |-> 0]
    /\ cur = 0
    /\ results = <<>>
    /\ cbLog = <<>>
    /\ errLog = 0
    /\ doneOrder = <<>>

\* `with ThreadPoolExecutor(max_workers=self.max_workers) as executor`: the
\* executor's constructor raises ValueError when max_workers <= 0, and
\* process_items ends with that exception before anything is submitted.
EnterPool ==
    /\ pc = "called"
    /\ pc' = IF max_workers <= 0 THEN "raised" ELSE "submit"
    /\ UNCHANGED <<items, max_workers, callback, submitted, queue, fstate,
                   outcome, submits, cur, results, cbLog, errLog, doneOrder>>

\* The work items one executor.submit(process_func, item) call enqueues.
\* (faulty variant: the item is enqueued twice)
WorkForTwice(k) == <<k, k>>
WorkFor(k) == <<k>>

\* executor.submit(process_func, item) for the next item of the comprehension.
Submit ==
    /\ pc = "submit"
    /\ submitted < N
    /\ LET k == submitted + 1 IN
        /\ submitted' = k
        /\ queue' = queue \o WorkFor(k)
        /\ submits' = [submits EXCEPT ![k] = @ + Len(WorkFor(k))]
        /\ fstate' = [fstate EXCEPT ![k] = "pending"]
    /\ UNCHANGED <<items, max_workers, callback, pc, outcome, cur, results,
                   cbLog, errLog, doneOrder>>

\* The comprehension is exhausted: the for loop over future_to_item starts.
BeginCollect ==
    /\ pc = "submit"
    /\ submitted = N
    /\ pc' = "collect"
    /\ cur' = 1
    /\ UNCHANGED <<items, max_workers, callback, submitted, queue, fstate,
                   outcome, submits, results, cbLog, errLog, doneOrder>>

Running == {i \in Idx : fstate[i] = "running"}

\* A pool thread is free to take the next work item.
\* (faulty variant: a thread per work item, unbounded)
WorkerFreeAlways == TRUE
WorkerFree == Cardinality(Running) < max_workers

\* A pool worker takes the head of the work queue and calls process_func.
Start ==
    /\ queue # <<>>
    /\ WorkerFree
    /\ fstate[Head(queue)] = "pending"
    /\ fstate' = [fstate EXCEPT ![Head(queue)] = "running"]
    /\ queue' = Tail(queue)
    /\ UNCHANGED <<items, max_workers, callback, pc, submitted, outcome,
                   submits, cur, results, cbLog, errLog, doneOrder>>

\* process_func(item) ends: it returns a value or raises; the future is set.
Finish(i, o) ==
    /\ fstate[i] = "running"
    /\ fstate' = [fstate EXCEPT ![i] = "finished"]
    /\ outcome' = [outcome EXCEPT ![i] = o]
    /\ doneOrder' = Append(doneOrder, i)
    /\ UNCHANGED <<items, max_workers, callback, pc, submitted, queue,
                   submits, cur, results, cbLog, errLog>>

\* future.result() blocks until the future is set.
ResultReady(i) == fstate[i] = "finished"

\* results after the loop body for future i, whose job ended with o.
\* (faulty variant: the result is put at the front of the list)
ResultsAfterPrepend(res, i, o) == IF Returned(o) THEN <<i>> \o res ELSE res
ResultsAfter(res, i, o) == IF Returned(o) THEN Append(res, i) ELSE res

\* The callback invocation of the loop body for future i (none on the except path).
CallbackAfter(log, i, o) ==
    IF Returned(o) /\ callback
    THEN Append(log, [item |-> items[i], result |-> i])
    ELSE log

\* Where the for loop goes after future i: the except is inside the loop.
\* (faulty variant: try/except around the whole loop, a raise ends it)
NextCurAbort(i, o) == IF o = "raise" THEN N + 1 ELSE i + 1
NextCur(i, o) == i + 1

\* One iteration of `for future in future_to_item` (submission order):
\* wait for the result, append it, call the callback; an exception of the
\* job (re-raised by result()) or of the callback is caught and logged.
Collect(cbRaises) ==
    /\ pc = "collect"
    /\ cur <= N
    /\ ResultReady(cur)
    /\ results' = ResultsAfter(results, cur, outcome[cur])
    /\ cbLog' = CallbackAfter(cbLog, cur, outcome[cur])
    /\ errLog' = IF outcome[cur] = "raise"
                    \/ (cbRaises /\ cbLog' # cbLog)
                 THEN errLog + 1 ELSE errLog
    /\ cur' = NextCur(cur, outcome[cur])
    /\ UNCHANGED <<items, max_workers, callback, pc, submitted, queue,
                   fstate, outcome, submits, doneOrder>>

\* ThreadPoolExecutor.__exit__: shutdown(wait=True).
ShutdownWait == \A i \in Idx : fstate[i] \in {"none", "finished"}

\* The loop is over; the with block exits and process_items returns results.
Return ==
    /\ pc = "collect"
    /\ cur > N
    /\ ShutdownWait
    /\ pc' = "returned"
    /\ UNCHANGED <<items, max_workers, callback, submitted, queue, fstate,
                   outcome, submits, cur, results, cbLog, errLog, doneOrder>>

\* --------------------------------------------------- ProgressTracker

Threads == 1..NThreads

\* No ProgressTracker has been constructed.
TrackerIdle ==
    /\ trk = "new"
    /\ total = 0
    /\ current = 0
    /\ lock = 0
    /\ tpc = [t \in Threads |-> "idle"]
    /\ tinc = [t \in Threads |-> 0]
    /\ tmp = [t \in Threads |-> 0]
    /\ snap = [t \in Threads |-> {}]
    /\ ncalls = [t \in Threads |-> 0]
    /\ zeroDiv = FALSE

\* ProgressTracker(total): stores total, current = 0 and a fresh lock; it
\* accepts every total it is given.
Construct(n) ==
    /\ trk = "new"
    /\ trk' = "live"
    /\ total' = n
    /\ current' = 0
    /\ lock' = 0
    /\ UNCHANGED <<tpc, tinc, tmp, snap, ncalls, zeroDiv>>

\* `with self.lock:` can be entered by thread t.
\* (faulty variant: no mutual exclusion)
LockFreeNoLock(t) == TRUE
LockFree(t) == lock = 0

\* min(self.current / self.total, 1.0) as the fraction num/den (total > 0),
\* and percentage = progress * 100 as pct/den.
Snapshot(c, n) ==
    LET num == IF c >= n THEN n ELSE c IN
    [current |-> c, total |-> n, num |-> num, den |-> n, pct |-> num * 100]

\* update(increment): enter `with self.lock`.
UpdAcquire(t, inc) ==
    /\ trk = "live"
    /\ tpc[t] = "idle"
    /\ ncalls[t] < MaxCalls
    /\ LockFree(t)
    /\ lock' = t
    /\ tpc' = [tpc EXCEPT ![t] = "load"]
    /\ tinc' = [tinc EXCEPT ![t] = inc]
    /\ ncalls' = [ncalls EXCEPT ![t] = @ + 1]
    /\ UNCHANGED <<trk, total, current, tmp, snap, zeroDiv>>

\* self.current += increment, first half: load self.current.
UpdLoad(t) ==
    /\ tpc[t] = "load"
    /\ tmp' = [tmp EXCEPT ![t] = current]
    /\ tpc' = [tpc EXCEPT ![t] = "store"]
    /\ UNCHANGED <<trk, total, current, lock, tinc, snap, ncalls, zeroDiv>>

\* self.current += increment, second half: store the sum.
UpdStore(t) ==
    /\ tpc[t] = "store"
    /\ current' = tmp[t] + tinc[t]
    /\ tpc' = [tpc EXCEPT ![t] = "snap"]
    /\ UNCHANGED <<trk, total, lock, tinc, tmp, snap, ncalls, zeroDiv>>

\* The rest of update(): compute the snapshot (ZeroDivisionError when
\* total is 0), leave the with block, return the dict.
UpdSnap(t) ==
    /\ tpc[t] = "snap"
    /\ IF total = 0
       THEN /\ zeroDiv' = TRUE
            /\ snap' = snap
       ELSE /\ snap' = [snap EXCEPT ![t] = {Snapshot(current, total)}]
            /\ zeroDiv' = zeroDiv
    /\ lock' = 0
    /\ tpc' = [tpc EXCEPT ![t] = "idle"]
    /\ UNCHANGED <<trk, total, current, tinc, tmp, ncalls>>

\* get_progress(): the whole call runs inside `with self.lock`.
GetProgress(t) ==
    /\ trk = "live"
    /\ tpc[t] = "idle"
    /\ LockFree(t)
    /\ IF total = 0
       THEN /\ zeroDiv' = TRUE
            /\ snap' = snap
       ELSE /\ snap' = [snap EXCEPT ![t] = {Snapshot(current, total)}]
            /\ zeroDiv' = zeroDiv
    /\ UNCHANGED <<trk, total, current, lock, tpc, tinc, tmp, ncalls>>

\* ------------------------------------------ MinerUWebConverter (batch)

\* A file name as its dot-separated parts <<name, extension>>.
FileSet == {<<"report", "pdf">>, <<"report", "docx">>, <<"pic", "PNG">>,
            <<"c", "xyz">>}

\* os.path.basename(file_path).split('.')[0]
BaseName(f) == f[1]

\* str.lower() on an extension.
Lower(e) ==
    CASE e = "PDF" -> "pdf"
      [] e = "DOCX" -> "docx"
      [] e = "PNG" -> "png"
      [] e = "XYZ" -> "xyz"
      [] OTHER -> e

\* os.path.splitext(file_path)[1].lower(), without the dot
FileExt(f) == Lower(f[2])

\* The dispatch of process_file on the extension.
\* (faulty variant: the else branch falls through to the image converter)
FileKindDefaultImage(f) ==
    IF FileExt(f) = "pdf" THEN "pdf"
    ELSE IF FileExt(f) \in {"doc", "docx"} THEN "docx"
    ELSE "image"
FileKind(f) ==
    IF FileExt(f) = "pdf" THEN "pdf"
    ELSE IF FileExt(f) \in {"doc", "docx"} THEN "docx"
    ELSE IF FileExt(f) \in {"jpg", "jpeg", "png", "gif"} THEN "image"
    ELSE "unknown"

\* os.path.join(self.output_dir, task_id) for task_id = f"task_{second}"
TaskDir(sec) == <<"task", sec>>

\* os.path.join(self.output_dir, f"batch_{second}")
BatchDir(sec) == <<"batch", sec>>

\* Paths are <<directory, subdirectory, file name>>.
MdPath(i) == <<TaskDir(task_id[i]), "", <<BaseName(items[i]), "md">>>>
ZipPath(i) == <<TaskDir(task_id[i]), "", <<BaseName(items[i]), "zip">>>>
ImagePath(i, name) == <<TaskDir(task_id[i]), "images", name>>

\* The image files a converter writes into local_image_dir for input f:
\* the PDF analyser names them after the document, _process_docx counts
\* image_1.png, ..., _process_image copies the input under its own name.
ImageNames(f) ==
    IF FileKind(f) = "pdf" THEN {<<BaseName(f), "fig">>}
    ELSE IF FileKind(f) = "docx" THEN {<<"image_1", "png">>}
    ELSE {f}

\* A plain file written by job i, and a zip holding entries.
Plain(i) == [by |-> i, entries |-> {}]
Zip(i, es) == [by |-> i, entries |-> es]

\* fs after writing the files of w (path -> content).
WriteAll(w) ==
    [p \in DOMAIN fs \cup DOMAIN w |-> IF p \in DOMAIN w THEN w[p] ELSE fs[p]]

\* No batch is running.
BatchIdle ==
    /\ file_paths = <<>>
    /\ bpc = "idle"
    /\ clock = 0
    /\ batch_id = 0
    /\ task_id = <<>>
    /\ jpc = <<>>
    /\ dirs = {}
    /\ fs = <<>>
    /\ archive = {}
    /\ agg = 0
    /\ scratch = <<>>
    /\ zipped = <<>>

BatchStart ==
    /\ file_paths \in UNION {[1..n -> FileSet] : n \in 0..MaxFiles}
    /\ bpc = "begin"
    /\ clock = 0
    /\ batch_id = 0
    /\ task_id = <<>>
    /\ jpc = <<>>
    /\ dirs = {}
    /\ fs = <<>>
    /\ archive = {}
    /\ agg = 0
    /\ scratch = <<>>
    /\ zipped = <<>>

\* The wall clock reaches the next second.
Tick ==
    /\ clock < MaxClock
    /\ clock' = clock + 1
    /\ UNCHANGED <<file_paths, bpc, batch_id, task_id, jpc, dirs, fs,
                   archive, agg, scratch, zipped>>


\* batch_process_files up to the call of process_items: the batch task id,
\* its directory, the ProgressTracker, and process_items entered with
\* (file_paths, self.process_file, process_callback). self.processor was
\* made with the default worker count, which the executor accepts.
BatchBegin(w) ==
    /\ bpc = "begin"
    /\ bpc' = "pool"
    /\ batch_id' = clock
    /\ dirs' = dirs \cup {BatchDir(clock)}
    /\ Construct(Len(file_paths))
    /\ items' = file_paths
    /\ max_workers' = w
    /\ callback' = TRUE
    /\ pc' = "submit"
    /\ fstate' = [i \in 1..Len(file_paths) |-> "none"]
    /\ outcome' = [i \in 1..Len(file_paths) |-> "none"]
    /\ submits' = [i \in 1..Len(file_paths) |-> 0]
    /\ task_id' = [i \in 1..Len(file_paths) |-> 0]
    /\ jpc' = [i \in 1..Len(file_paths) |-> "none"]
    /\ zipped' = [i \in 1..Len(file_paths) |-> {}]
    /\ UNCHANGED <<submitted, queue, cur, results, cbLog, errLog, doneOrder>>
    /\ UNCHANGED <<file_paths, clock, fs, archive, agg, scratch>>

\* A pool worker calls process_file: task_id = f"task_{int(time.time())}".
JobStart ==
    /\ bpc = "pool"
    /\ Start
    /\ task_id' = [task_id EXCEPT ![Head(queue)] = clock]
    /\ jpc' = [jpc EXCEPT ![Head(queue)] = "dispatch"]
    /\ UNCHANGED <<file_paths, bpc, clock, batch_id, dirs, fs, archive, agg, scratch, zipped>>

\* process_file on an extension it does not know: return (message, None).
JobUnsupported(i) ==
    /\ jpc[i] = "dispatch"
    /\ FileKind(items[i]) = "unknown"
    /\ Finish(i, "failure")
    /\ jpc' = [jpc EXCEPT ![i] = "done"]
    /\ UNCHANGED <<file_paths, bpc, clock, batch_id, task_id, dirs, fs,
                   archive, agg, scratch, zipped>>

\* _process_pdf/_process_docx/_process_image up to the Markdown file:
\* ensure_dir(local_image_dir), then the converter either raises (the job
\* ends with that exception) or writes its images and {name}.md.
JobConvert(i, raises) ==
    /\ jpc[i] = "dispatch"
    /\ FileKind(items[i]) # "unknown"
    /\ dirs' = dirs \cup {TaskDir(task_id[i])}
    /\ IF raises
       THEN /\ Finish(i, "raise")
            /\ jpc' = [jpc EXCEPT ![i] = "done"]
            /\ fs' = fs
       ELSE /\ fs' = WriteAll(
                  [p \in {MdPath(i)} \cup
                         {ImagePath(i, n) : n \in ImageNames(items[i])}
                     |-> Plain(i)])
            /\ jpc' = [jpc EXCEPT ![i] = "converted"]
            /\ UNCHANGED poolVars
    /\ UNCHANGED <<file_paths, bpc, clock, batch_id, task_id, archive, agg, scratch, zipped>>

\* The image files the zip step of job i packs: _process_pdf and
\* _process_docx pack os.listdir(local_image_dir), _process_image packs the
\* copy of its input.
PackedImages(i) ==
    IF FileKind(items[i]) = "image"
    THEN {ImagePath(i, items[i])}
    ELSE {p \in DOMAIN fs : p[1] = TaskDir(task_id[i]) /\ p[2] = "images"}

\* The rest of _process_*: write {name}.zip holding {name}.md at the root
\* and the images under images/, and return (md_content, zip_path).
JobPack(i) ==
    /\ jpc[i] = "converted"
    /\ fs' = WriteAll(
          [p \in {ZipPath(i)} |->
              Zip(i, {[rel |-> <<"", MdPath(i)[3]>>, content |-> fs[MdPath(i)]]}
                     \cup {[rel |-> <<"images", q[3]>>, content |-> fs[q]]
                              : q \in PackedImages(i)})])
    /\ zipped' = [zipped EXCEPT ![i] = fs'[ZipPath(i)].entries]
    /\ Finish(i, "ok")
    /\ jpc' = [jpc EXCEPT ![i] = "done"]
    /\ UNCHANGED <<file_paths, bpc, clock, batch_id, task_id, dirs,
                   archive, agg, scratch>>

\* process_callback: progress.update(), then progress.get_progress().
ProcessCallback ==
    /\ current' = current + 1
    /\ snap' = [snap EXCEPT ![1] = {Snapshot(current + 1, total)}]
    /\ UNCHANGED <<trk, total, lock, tpc, tinc, tmp, ncalls, zeroDiv>>

\* One iteration of the result loop of process_items inside the batch.
BatchCollect ==
    /\ bpc = "pool"
    /\ Collect(FALSE)
    /\ IF cbLog' # cbLog THEN ProcessCallback ELSE UNCHANGED trackerVars
    /\ UNCHANGED batchVars

\* process_items returns: zipfile.ZipFile(batch_zip_path, 'w') is opened and
\* the loop over the results starts.
BeginAggregate ==
    /\ bpc = "pool"
    /\ pc = "returned"
    /\ bpc' = "aggregate"
    /\ agg' = 1
    /\ archive' = {}
    /\ UNCHANGED <<file_paths, clock, batch_id, task_id, jpc, dirs, fs,
                   scratch, zipped>>

\* isinstance(result, tuple) and len(result) == 2 and result[1], and
\* os.path.exists(zip_path), for the result of job i.
HasArchive(i) == outcome[i] = "ok" /\ ZipPath(i) \in DOMAIN fs

\* base_name = os.path.basename(zip_path).split('.')[0]
ZipBaseName(zp) == zp[3][1]

\* Where the aggregation loop goes after result k.
\* (faulty variant: the loop stops at the first result it cannot pack)
AggNextBreak(k, packed) == IF packed THEN k + 1 ELSE Len(results) + 1
AggNext(k, packed) == k + 1

\* One iteration of the aggregation loop for a result that has no archive:
\* neither if holds, nothing is extracted or written.
AggregateSkip ==
    /\ bpc = "aggregate"
    /\ agg <= Len(results)
    /\ ~HasArchive(results[agg])
    /\ agg' = AggNext(agg, FALSE)
    /\ UNCHANGED <<file_paths, bpc, clock, batch_id, task_id, jpc, dirs, fs,
                   archive, scratch, zipped>>

\* file_zip.extractall(temp_dir): one file per member of the zip at zp.
Extracted(zp) == {[rel |-> e.rel, content |-> e.content] : e \in fs[zp].entries}

\* tempfile.TemporaryDirectory().__exit__ for the directory made for result
\* k: it runs when the with block is left, normally or by an exception.
\* (faulty variant: the directory is removed by a statement at the end of
\* the block, which an exception skips)
ScratchAfterLeak(sc, k, raised) ==
    IF raised THEN sc ELSE [d \in DOMAIN sc \ {k} |-> sc[d]]
ScratchAfter(sc, k, raised) == [d \in DOMAIN sc \ {k} |-> sc[d]]

\* The temporary directories with a new one for result k holding files.
ScratchWith(k, files) ==
    [d \in DOMAIN scratch \cup {k} |-> IF d = k THEN files ELSE scratch[d]]

\* batch_zip_path = os.path.join(task_output_dir, "batch_results.zip")
BatchZipPath == <<BatchDir(batch_id), "", <<"batch_results", "zip">>>>

\* fs once `with zipfile.ZipFile(batch_zip_path, 'w')` is left with entries es.
BatchZipClosed(es) == WriteAll([p \in {BatchZipPath} |-> Zip(0, es)])

\* The first half of an iteration for a result with an archive: a temporary
\* directory is made and the job's zip extracted into it. When the zip
\* cannot be read the exception leaves both with blocks and
\* batch_process_files ends with it.
AggregateExtract(raises) ==
    /\ bpc = "aggregate"
    /\ agg <= Len(results)
    /\ HasArchive(results[agg])
    /\ agg \notin DOMAIN scratch
    /\ IF raises
       THEN /\ scratch' = ScratchAfter(ScratchWith(agg, {}), agg, TRUE)
            /\ bpc' = "raised"
            /\ fs' = BatchZipClosed(archive)
       ELSE /\ scratch' = ScratchWith(agg, Extracted(ZipPath(results[agg])))
            /\ UNCHANGED <<bpc, fs>>
    /\ UNCHANGED <<file_paths, clock, batch_id, task_id, jpc, dirs, archive,
                   agg, zipped>>

\* The second half: os.walk(temp_dir) and batch_zip.write(file_path,
\* {base_name}/{rel_path}) for every extracted file, then the temporary
\* directory is left. A write that raises leaves the files written before it
\* in the batch zip and ends batch_process_files with the exception.
AggregateRepack(raises) ==
    /\ bpc = "aggregate"
    /\ agg \in DOMAIN scratch
    /\ \E part \in SUBSET scratch[agg] :
        /\ raises <=> part # scratch[agg]
        /\ archive' = archive \cup
              {[top |-> ZipBaseName(ZipPath(results[agg])), rel |-> e.rel,
                content |-> e.content, res |-> agg] : e \in part}
    /\ scratch' = ScratchAfter(scratch, agg, raises)
    /\ IF raises
       THEN /\ bpc' = "raised"
            /\ fs' = BatchZipClosed(archive')
            /\ agg' = agg
       ELSE /\ agg' = AggNext(agg, TRUE)
            /\ UNCHANGED <<bpc, fs>>
    /\ UNCHANGED <<file_paths, clock, batch_id, task_id, jpc, dirs, zipped>>

\* The batch zip is closed and batch_process_files returns its path.
BatchReturn ==
    /\ bpc = "aggregate"
    /\ agg > Len(results)
    /\ bpc' = "done"
    /\ fs' = BatchZipClosed(archive)
    /\ UNCHANGED <<file_paths, clock, batch_id, task_id, jpc, dirs,
                   archive, agg, scratch, zipped>>

\* update(increment) with any integer a caller may pass; the program itself
\* only calls update() with the default increment 1.
IncrementSet == {-1, 0, 1, 2}

\* ------------------------------- concurrent batch_process_files calls

\* The handler calls that can be in flight on the one converter object.
Runs == 1..NRuns

\* No batch_process_files call was made.
RunsIdle ==
    /\ rpc = [r \in Runs |-> "idle"]
    /\ rid = [r \in Runs |-> 0]

\* os.path.join(task_output_dir, "batch_results.zip") of call r.
RunZipPath(r) == <<BatchDir(rid[r]), "", <<"batch_results", "zip">>>>

\* Call r is between making its batch task id and returning.
Active(r) == rpc[r] \in {"named", "pool", "writing"}

\* Call r starts: task_id = f"batch_{int(time.time())}".
RunName(r) ==
    /\ rpc[r] = "idle"
    /\ rpc' = [rpc EXCEPT ![r] = "named"]
    /\ rid' = [rid EXCEPT ![r] = clock]
    /\ UNCHANGED <<clock, dirs, fs, batchRest>>

\* FileUtils.ensure_dir(task_output_dir), then process_items runs.
RunMkdir(r) ==
    /\ rpc[r] = "named"
    /\ rpc' = [rpc EXCEPT ![r] = "pool"]
    /\ dirs' = dirs \cup {BatchDir(rid[r])}
    /\ UNCHANGED <<rid, clock, fs, batchRest>>

\* process_items returned: zipfile.ZipFile(batch_zip_path, 'w') creates or
\* truncates the file and the aggregation loop writes into it.
RunOpenZip(r) ==
    /\ rpc[r] = "pool"
    /\ rpc' = [rpc EXCEPT ![r] = "writing"]
    /\ fs' = WriteAll([p \in {RunZipPath(r)} |-> Zip(r, {})])
    /\ UNCHANGED <<rid, clock, dirs, batchRest>>

\* The batch zip of call r is closed and its path returned.
RunCloseZip(r) ==
    /\ rpc[r] = "writing"
    /\ rpc' = [rpc EXCEPT ![r] = "done"]
    /\ UNCHANGED <<rid, clock, dirs, fs, batchRest>>

\* ------------------------------------------------- FileUtils.ensure_dir

\* The directories ensure_dir is called on.
DirSet == {TaskDir(sec) : sec \in 0..MaxClock}

\* No thread has called ensure_dir.
DirIdle ==
    /\ dpc = [t \in Threads |-> "idle"]
    /\ dtgt = [t \in Threads |-> TaskDir(0)]
    /\ eres = [t \in Threads |-> "none"]
    /\ derr = FALSE

\* os.makedirs(directory, exist_ok=True) when the directory exists or not:
\* with exist_ok it never raises FileExistsError.
\* (faulty variant: os.makedirs(directory), which raises when it exists)
MakedirsRaisesNoExistOk(exists) == exists
MakedirsRaises(exists) == FALSE

\* ensure_dir(d), first half: `if not os.path.exists(directory)`; when the
\* directory exists the call returns at once.
EnsureCheck(t, d) ==
    /\ dpc[t] = "idle"
    /\ dtgt' = [dtgt EXCEPT ![t] = d]
    /\ dpc' = [dpc EXCEPT ![t] = IF d \in dirs THEN "ready" ELSE "create"]
    /\ eres' = [eres EXCEPT ![t] = IF d \in dirs THEN "existed" ELSE "none"]
    /\ UNCHANGED <<derr, dirs, fs, clock, batchRest>>

\* ensure_dir, second half: os.makedirs(directory, exist_ok=True); another
\* thread may have created the directory since the check.
EnsureMake(t) ==
    /\ dpc[t] = "create"
    /\ LET exists == dtgt[t] \in dirs
           raises == MakedirsRaises(exists) IN
        /\ derr' = (derr \/ raises)
        /\ dpc' = [dpc EXCEPT ![t] = IF raises THEN "failed" ELSE "ready"]
        /\ eres' = [eres EXCEPT ![t] = IF exists THEN "raced" ELSE "created"]
    /\ dirs' = dirs \cup {dtgt[t]}
    /\ UNCHANGED <<dtgt, fs, clock, batchRest>>

\* The caller writes its output file into the directory and is done with it.
WriteFile(t) ==
    /\ dpc[t] = "ready"
    /\ fs' = WriteAll([p \in {<<dtgt[t], "", <<"out", "md">>>>} |-> Plain(t)])
    /\ dpc' = [dpc EXCEPT ![t] = "idle"]
    /\ dtgt' = [dtgt EXCEPT ![t] = TaskDir(0)]
    /\ eres' = [eres EXCEPT ![t] = "none"]
    /\ UNCHANGED <<derr, dirs, clock, batchRest>>

\* ------------------------- the callback of process_items, step by step

\* The thread that called process_items; pool thread i > 0 is the one that
\* ran job i.
Caller == 0

\* No callback is being invoked.
CbIdle == cbRun = {}

\* The thread that executes callback(item, result) for future i: the call
\* is a statement of the for loop, which the caller of process_items runs.
\* (faulty variant: the callback is attached with add_done_callback and runs
\* on the pool thread that completed the job)
CallbackThreadOfWorker(i) == i
CallbackThread(i) == Caller

\* The loop body for future cur up to the callback: result() returns or
\* re-raises; a returned result is appended and, when a callback was given,
\* callback(item, result) is entered. Without a callback invocation the
\* iteration is over (a re-raised exception is logged).
CollectCall ==
    /\ pc = "collect"
    /\ cur <= N
    /\ ResultReady(cur)
    /\ results' = ResultsAfter(results, cur, outcome[cur])
    /\ cbLog' = CallbackAfter(cbLog, cur, outcome[cur])
    /\ IF cbLog' # cbLog
       THEN /\ pc' = "callback"
            /\ cbRun' = cbRun \cup {[job |-> cur, thread |-> CallbackThread(cur)]}
            /\ UNCHANGED <<cur, errLog>>
       ELSE /\ cur' = NextCur(cur, outcome[cur])
            /\ errLog' = IF outcome[cur] = "raise" THEN errLog + 1 ELSE errLog
            /\ UNCHANGED <<pc, cbRun>>
    /\ UNCHANGED <<items, max_workers, callback, submitted, queue, fstate,
                   outcome, submits, doneOrder>>

\* callback(item, result) returns or raises (caught and logged by the except
\* of the loop body); the loop goes on to the next future.
CallbackReturn(cbRaises) ==
    /\ pc = "callback"
    /\ cbRun' = {c \in cbRun : c.job # cur}
    /\ errLog' = IF cbRaises THEN errLog + 1 ELSE errLog
    /\ cur' = NextCur(cur, outcome[cur])
    /\ pc' = "collect"
    /\ UNCHANGED <<items, max_workers, callback, submitted, queue, fstate,
                   outcome, submits, results, cbLog, doneOrder>>

\* ------------------------------------------------------ specifications

PoolInit == PoolStart /\ TrackerIdle /\ BatchIdle /\ RunsIdle /\ DirIdle /\ CbIdle

PoolNext ==
    \/ EnterPool /\ UNCHANGED <<trackerVars, batchVars, runVars, dirVars, cbVars>>
    \/ Submit /\ UNCHANGED <<trackerVars, batchVars, runVars, dirVars, cbVars>>
    \/ BeginCollect /\ UNCHANGED <<trackerVars, batchVars, runVars, dirVars, cbVars>>
    \/ Start /\ UNCHANGED <<trackerVars, batchVars, runVars, dirVars, cbVars>>
    \/ \E i \in Idx : \E o \in Outcomes : Finish(i, o) /\ UNCHANGED <<trackerVars, batchVars, runVars, dirVars, cbVars>>
    \/ \E cbRaises \in BOOLEAN : Collect(cbRaises) /\ UNCHANGED <<trackerVars, batchVars, runVars, dirVars, cbVars>>
    \/ Return /\ UNCHANGED <<trackerVars, batchVars, runVars, dirVars, cbVars>>

PoolSpec == PoolInit /\ [][PoolNext]_vars

TrackerInit == TrackerIdle /\ PoolIdle /\ BatchIdle /\ RunsIdle /\ DirIdle /\ CbIdle

TrackerNext ==
    \/ \E n \in 0..MaxTotal : Construct(n) /\ UNCHANGED <<poolVars, batchVars, runVars, dirVars, cbVars>>
    \/ \E t \in Threads : UpdAcquire(t, 1) /\ UNCHANGED <<poolVars, batchVars, runVars, dirVars, cbVars>>
    \/ \E t \in Threads : UpdLoad(t) /\ UNCHANGED <<poolVars, batchVars, runVars, dirVars, cbVars>>
    \/ \E t \in Threads : UpdStore(t) /\ UNCHANGED <<poolVars, batchVars, runVars, dirVars, cbVars>>
    \/ \E t \in Threads : UpdSnap(t) /\ UNCHANGED <<poolVars, batchVars, runVars, dirVars, cbVars>>
    \/ \E t \in Threads : GetProgress(t) /\ UNCHANGED <<poolVars, batchVars, runVars, dirVars, cbVars>>

TrackerSpec == TrackerInit /\ [][TrackerNext]_vars

TrackerAnyNext ==
    \/ \E n \in 0..MaxTotal : Construct(n) /\ UNCHANGED <<poolVars, batchVars, runVars, dirVars, cbVars>>
    \/ \E t \in Threads : \E inc \in IncrementSet :
            UpdAcquire(t, inc) /\ UNCHANGED <<poolVars, batchVars, runVars, dirVars, cbVars>>
    \/ \E t \in Threads : UpdLoad(t) /\ UNCHANGED <<poolVars, batchVars, runVars, dirVars, cbVars>>
    \/ \E t \in Threads : UpdStore(t) /\ UNCHANGED <<poolVars, batchVars, runVars, dirVars, cbVars>>
    \/ \E t \in Threads : UpdSnap(t) /\ UNCHANGED <<poolVars, batchVars, runVars, dirVars, cbVars>>
    \/ \E t \in Threads : GetProgress(t) /\ UNCHANGED <<poolVars, batchVars, runVars, dirVars, cbVars>>

TrackerAnySpec == TrackerInit /\ [][TrackerAnyNext]_vars

BatchInit == BatchStart /\ PoolIdle /\ TrackerIdle /\ RunsIdle /\ DirIdle /\ CbIdle

BatchNext ==
    \/ Tick /\ UNCHANGED <<poolVars, trackerVars, runVars, dirVars, cbVars>>
    \/ \E w \in DefaultWorkers : BatchBegin(w) /\ UNCHANGED <<runVars, dirVars, cbVars>>
    \/ Submit /\ UNCHANGED <<trackerVars, batchVars, runVars, dirVars, cbVars>>
    \/ BeginCollect /\ UNCHANGED <<trackerVars, batchVars, runVars, dirVars, cbVars>>
    \/ JobStart /\ UNCHANGED <<trackerVars, runVars, dirVars, cbVars>>
    \/ \E i \in Idx : JobUnsupported(i) /\ UNCHANGED <<trackerVars, runVars, dirVars, cbVars>>
    \/ \E i \in Idx : \E raises \in BOOLEAN :
            JobConvert(i, raises) /\ UNCHANGED <<trackerVars, runVars, dirVars, cbVars>>
    \/ \E i \in Idx : JobPack(i) /\ UNCHANGED <<trackerVars, runVars, dirVars, cbVars>>
    \/ BatchCollect /\ UNCHANGED <<runVars, dirVars, cbVars>>
    \/ Return /\ UNCHANGED <<trackerVars, batchVars, runVars, dirVars, cbVars>>
    \/ BeginAggregate /\ UNCHANGED <<poolVars, trackerVars, runVars, dirVars, cbVars>>
    \/ AggregateSkip /\ UNCHANGED <<poolVars, trackerVars, runVars, dirVars, cbVars>>
    \/ \E raises \in BOOLEAN :
            AggregateExtract(raises) /\ UNCHANGED <<poolVars, trackerVars, runVars, dirVars, cbVars>>
    \/ \E raises \in BOOLEAN :
            AggregateRepack(raises) /\ UNCHANGED <<poolVars, trackerVars, runVars, dirVars, cbVars>>
    \/ BatchReturn /\ UNCHANGED <<poolVars, trackerVars, runVars, dirVars, cbVars>>

BatchSpec == BatchInit /\ [][BatchNext]_vars

RunsInit == BatchIdle /\ PoolIdle /\ TrackerIdle /\ RunsIdle /\ DirIdle /\ CbIdle

RunsNext ==
    \/ Tick /\ UNCHANGED <<poolVars, trackerVars, runVars, dirVars, cbVars>>
    \/ \E r \in Runs : RunName(r) /\ UNCHANGED <<poolVars, trackerVars, dirVars, cbVars>>
    \/ \E r \in Runs : RunMkdir(r) /\ UNCHANGED <<poolVars, trackerVars, dirVars, cbVars>>
    \/ \E r \in Runs : RunOpenZip(r) /\ UNCHANGED <<poolVars, trackerVars, dirVars, cbVars>>
    \/ \E r \in Runs : RunCloseZip(r) /\ UNCHANGED <<poolVars, trackerVars, dirVars, cbVars>>

RunsSpec == RunsInit /\ [][RunsNext]_vars

DirInit == BatchIdle /\ PoolIdle /\ TrackerIdle /\ RunsIdle /\ DirIdle /\ CbIdle

DirNext ==
    \/ \E t \in Threads : \E d \in DirSet :
            EnsureCheck(t, d) /\ UNCHANGED <<poolVars, trackerVars, runVars, cbVars>>
    \/ \E t \in Threads : EnsureMake(t) /\ UNCHANGED <<poolVars, trackerVars, runVars, cbVars>>
    \/ \E t \in Threads : WriteFile(t) /\ UNCHANGED <<poolVars, trackerVars, runVars, cbVars>>

DirSpec == DirInit /\ [][DirNext]_vars

CallbackInit ==
    /\ PoolStart /\ callback
    /\ TrackerIdle /\ BatchIdle /\ RunsIdle /\ DirIdle /\ CbIdle

CallbackNext ==
    \/ EnterPool /\ UNCHANGED <<trackerVars, batchVars, runVars, dirVars, cbVars>>
    \/ Submit /\ UNCHANGED <<trackerVars, batchVars, runVars, dirVars, cbVars>>
    \/ BeginCollect /\ UNCHANGED <<trackerVars, batchVars, runVars, dirVars, cbVars>>
    \/ Start /\ UNCHANGED <<trackerVars, batchVars, runVars, dirVars, cbVars>>
    \/ \E i \in Idx : \E o \in Outcomes :
            Finish(i, o) /\ UNCHANGED <<trackerVars, batchVars, runVars, dirVars, cbVars>>
    \/ CollectCall /\ UNCHANGED <<trackerVars, batchVars, runVars, dirVars>>
    \/ \E cbRaises \in BOOLEAN :
            CallbackReturn(cbRaises) /\ UNCHANGED <<trackerVars, batchVars, runVars, dirVars>>
    \/ Return /\ UNCHANGED <<trackerVars, batchVars, runVars, dirVars, cbVars>>

CallbackSpec == CallbackInit /\ [][CallbackNext]_vars

\* ------------------------------------------------------------- claims

\* How often job i's result was handed to the callback.
CbCount(i) == Cardinality({k \in 1..Len(cbLog) : cbLog[k].result = i})

\* How often job i's result occurs in the returned list.
ResCount(i) == Cardinality({k \in 1..Len(results) : results[k] = i})

\* C1: when process_items returns, the returned list has exactly len(items)
\* entries, successes and failures together, whatever each job did.
C1_ReturnsOneEntryPerItem == pc = "returned" => Len(results) = N

\* C2: with a callback given, every submitted item's callback has run exactly
\* once when process_items returns, whether its job returned or raised, and a
\* callback never runs before its job has finished.
C2_CallbackOncePerItem ==
    callback =>
        /\ \A k \in 1..Len(cbLog) : fstate[cbLog[k].result] = "finished"
        /\ pc = "returned" => \A i \in Idx : CbCount(i) = 1

\* C3: a job that raises (or returns a failure) does not abort its siblings:
\* when process_items returns every job has been executed, and the result of
\* every job that returned normally is in the list exactly once, so the
\* number of results is the number of jobs that returned.
C3_FailureKeepsSiblings ==
    pc = "returned" =>
        /\ \A i \in Idx : fstate[i] = "finished"
        /\ \A i \in Idx : Returned(outcome[i]) => ResCount(i) = 1
        /\ Len(results) = Cardinality({i \in Idx : Returned(outcome[i])})

\* C3 witness: a batch has returned in which a job raised, a later job
\* returned a failure and a still later one succeeded, both kept.
C3_Witness ==
    /\ pc = "returned"
    /\ \E i, j, k \in Idx :
        /\ i < j /\ j < k
        /\ outcome[i] = "raise" /\ outcome[j] = "failure" /\ outcome[k] = "ok"
        /\ ResCount(j) = 1 /\ ResCount(k) = 1

\* C4: every item is handed to the pool exactly once (equal items too), and
\* when process_items returns no submitted job is pending or running.
C4_SubmittedOnceAndDrained ==
    /\ \A i \in Idx : submits[i] = (IF i <= submitted THEN 1 ELSE 0)
    /\ pc \in {"collect", "returned"} => submitted = N
    /\ pc = "returned" =>
          /\ queue = <<>>
          /\ \A i \in Idx : fstate[i] = "finished"

\* C4 witness: process_items has returned for a list holding two equal items.
C4_Witness ==
    /\ pc = "returned"
    /\ \E i, j \in Idx : i # j /\ items[i] = items[j]

RECURSIVE SumOver(_, _)
SumOver(f, S) ==
    IF S = {} THEN 0
    ELSE LET t == CHOOSE x \in S : TRUE IN f[t] + SumOver(f, S \ {t})

\* C5: for total > 0 and update() calls with increment 1 from concurrent
\* threads, once no call is in progress completed equals the number of calls
\* made, and the fraction of every snapshot returned lies in [0,1].
C5_NoLostUpdate ==
    (trk = "live" /\ total > 0) =>
        /\ (\A t \in Threads : tpc[t] = "idle")
              => current = SumOver(ncalls, Threads)
        /\ \A t \in Threads : \A s \in snap[t] :
              0 <= s.num /\ s.num <= s.den

\* C5 witness: two threads have each called update(), all calls are over, and
\* a snapshot was returned with completed above total (the clamp acted).
C5_Witness ==
    /\ trk = "live" /\ total > 0
    /\ \A t \in Threads : tpc[t] = "idle" /\ ncalls[t] >= 1
    /\ \E t \in Threads : \E s \in snap[t] : s.current > s.total /\ s.num = s.den

\* Job i is inside _process_*: it has its task id and works in its workspace.
InWorkspace(i) ==
    /\ fstate[i] = "running"
    /\ jpc[i] \in {"dispatch", "converted"}
    /\ FileKind(items[i]) # "unknown"

\* C6: two conversion jobs running at the same time never have the same
\* workspace root directory {output_dir}/{task_id}.
C6_DistinctWorkspaceRoots ==
    \A i, j \in Idx :
        (i # j /\ InWorkspace(i) /\ InWorkspace(j))
            => TaskDir(task_id[i]) # TaskDir(task_id[j])

\* The inputs of the batch have pairwise distinct base names.
DistinctBaseNames ==
    \A i, j \in Idx : i # j => BaseName(items[i]) # BaseName(items[j])

\* The jobs that completed successfully and whose per-job archive exists.
Succeeded == {i \in Idx : outcome[i] = "ok" /\ ZipPath(i) \in DOMAIN fs}

\* C7: for inputs with pairwise distinct base names, the returned batch
\* archive has a top-level directory {base_name}/ for exactly the jobs that
\* succeeded and whose archive exists; every entry comes from such a job, a
\* failed job contributes none, and the archive is produced all the same.
C7_ArchiveHoldsSuccessfulSubset ==
    (bpc = "done" /\ DistinctBaseNames) =>
        /\ {e.top : e \in archive} = {BaseName(items[i]) : i \in Succeeded}
        /\ \A e \in archive :
              /\ results[e.res] \in Succeeded
              /\ e.top = BaseName(items[results[e.res]])
        /\ BatchZipPath \in DOMAIN fs
        /\ fs[BatchZipPath].entries = archive

\* C7 witness: a batch has returned whose first job failed (unsupported type
\* or converter error) and whose later job succeeded and is in the archive.
C7_Witness ==
    /\ bpc = "done" /\ DistinctBaseNames
    /\ \E i, j \in Idx :
        /\ i < j
        /\ outcome[i] \in {"failure", "raise"}
        /\ outcome[j] = "ok"
        /\ \E e \in archive : e.top = BaseName(items[j])

\* C8: no two distinct jobs contribute entries under the same top-level
\* directory of the batch archive, and no archive path is written twice.
C8_NoSharedTopLevelDirectory ==
    \A e1, e2 \in archive : e1.res # e2.res => e1.top # e2.top

\* C9: no update(increment) call ever lowers completed.
C9_CompletedNonDecreasing == [][current' >= current]_vars

\* C10: the constructor rejects total == 0, so no tracker with total 0 exists
\* and no update() or get_progress() call raises ZeroDivisionError.
C10_ZeroTotalRejected == (trk = "live" => total # 0) /\ ~zeroDiv

\* The extensions process_file converts.
SupportedExts == {"pdf", "doc", "docx", "jpg", "jpeg", "png", "gif"}

\* The extension of f, compared case-insensitively, is none of them.
UnsupportedExt(f) == Lower(f[2]) \notin SupportedExts

\* C11: process_file on an unsupported extension touches nothing: neither
\* the step that starts it nor the step that ends it creates a directory or
\* writes a file, and it always ends by returning the failure (no archive).
C11_UnsupportedTouchesNothing ==
    [][\A i \in Idx :
          UnsupportedExt(items[i]) =>
             /\ (fstate[i] = "pending" /\ fstate'[i] = "running")
                   => (fs' = fs /\ dirs' = dirs)
             /\ (fstate[i] = "running" /\ fstate'[i] = "finished")
                   => (outcome'[i] = "failure" /\ fs' = fs /\ dirs' = dirs)
      ]_vars

\* C11 witness: a job on an unsupported extension has returned its failure
\* while a sibling's files are on disk, none of them written by that job.
C11_Witness ==
    \E i \in Idx :
        /\ UnsupportedExt(items[i])
        /\ outcome[i] = "failure"
        /\ DOMAIN fs # {}
        /\ \A p \in DOMAIN fs : fs[p].by # i

\* C12: process_file reports every failure as a returned pair and never lets
\* an exception escape.
C12_FailuresAreReturned ==
    bpc # "idle" => \A i \in Idx : outcome[i] # "raise"

\* The position of job i in the order in which the jobs ended.
DonePos(i) == CHOOSE k \in 1..Len(doneOrder) : doneOrder[k] = i

\* C14: the callbacks are invoked in the order in which their jobs ended.
C14_CallbacksInCompletionOrder ==
    \A a, b \in 1..Len(cbLog) :
        a < b => DonePos(cbLog[a].result) < DonePos(cbLog[b].result)

\* C17: while the executor exists or any job executes, max_workers is at
\* least 1 and at most max_workers job invocations execute at the same time.
C17_AtMostMaxWorkersRunning ==
    (pc \in {"submit", "collect"} \/ Running # {}) =>
        /\ max_workers >= 1
        /\ Cardinality(Running) <= max_workers

\* C17 witness: every pool thread is busy and a submitted job waits in the
\* queue for one of them.
C17_Witness ==
    /\ max_workers >= 1
    /\ Cardinality(Running) = max_workers
    /\ queue # <<>>

\* C20: the returned list holds the results of exactly the jobs that returned
\* normally, and the result of an earlier submitted item precedes the result
\* of a later submitted one.
C20_ResultsInSubmissionOrder ==
    /\ \A a, b \in 1..Len(results) : a < b => results[a] < results[b]
    /\ pc = "returned" =>
          {results[k] : k \in 1..Len(results)}
              = {i \in Idx : Returned(outcome[i])}

\* C20 witness: process_items returned two results or more, and a later
\* submitted job that returned normally ended before an earlier submitted one.
C20_Witness ==
    /\ pc = "returned"
    /\ Len(results) >= 2
    /\ \E a, b \in 1..Len(doneOrder) :
          /\ a < b
          /\ doneOrder[a] > doneOrder[b]
          /\ Returned(outcome[doneOrder[a]])
          /\ Returned(outcome[doneOrder[b]])

\* C13: a scratch directory exists only while its own result is being
\* re-packed, and none is left once batch_process_files has returned or
\* raised.
C13_ScratchRemovedOnEveryExit ==
    /\ bpc \in {"done", "raised"} => DOMAIN scratch = {}
    /\ \A k \in DOMAIN scratch : bpc = "aggregate" /\ k = agg

\* C13 witness: the re-packing of a result raised after it had written some
\* of the extracted files, and its scratch directory is gone.
C13_Witness ==
    /\ bpc = "raised"
    /\ \E e \in archive : e.res = agg
    /\ DOMAIN scratch = {}

\* The inputs of the batch are pairwise distinct files.
DistinctInputs == \A i, j \in Idx : i # j => items[i] # items[j]

\* The (relative path, content) pairs the batch archive holds under top/.
Under(top) ==
    {[rel |-> e.rel, content |-> e.content] : e \in {x \in archive : x.top = top}}

\* C16: for every job whose archive was aggregated, the pairs the job packed
\* into its archive are the pairs the batch archive holds under {base_name}/
\* (stated for batches of pairwise distinct input files).
C16_AggregationRoundTrip ==
    (bpc = "done" /\ DistinctInputs) =>
        \A k \in 1..Len(results) :
            HasArchive(results[k]) =>
                Under(BaseName(items[results[k]])) = zipped[results[k]]

\* C19: on distinct inputs, after every step each zip in a task directory
\* holds only files written by the job that wrote the zip, and no file in a
\* task directory is overwritten by another job than the one that wrote it.
C19_JobsKeepToTheirOwnFiles ==
    [][DistinctInputs =>
          \A p \in DOMAIN fs' :
              p[1][1] = "task" =>
                  /\ \A e \in fs'[p].entries : e.content.by = fs'[p].by
                  /\ p \in DOMAIN fs => fs'[p].by = fs[p].by
      ]_vars

\* C15: two batch runs that are active at the same time never work in the
\* same batch workspace, so they never write the same batch_results.zip.
C15_ActiveRunsUseDistinctWorkspaces ==
    \A r1, r2 \in Runs :
        (r1 # r2 /\ Active(r1) /\ Active(r2))
            => BatchDir(rid[r1]) # BatchDir(rid[r2])

\* C18: no step of an ensure_dir call raises, removes a directory, or
\* changes a file, whether the directory existed at the check, was created
\* by the call, or was created by another thread in between.
C18_EnsureDirIdempotent ==
    [][(\E t \in Threads : dpc[t] \in {"idle", "create"} /\ dpc'[t] # dpc[t])
          => (fs' = fs /\ dirs \subseteq dirs' /\ ~derr')]_vars

\* C18 witness: a thread's makedirs ran on a directory that another thread
\* had created after the check and that already holds a written file, and
\* the call returned normally.
C18_Witness ==
    \E t \in Threads :
        /\ dpc[t] = "ready"
        /\ eres[t] = "raced"
        /\ <<dtgt[t], "", <<"out", "md">>>> \in DOMAIN fs
        /\ ~derr

\* C21: at most one callback invocation is in progress at any time, and
\* every invocation runs on the thread that called process_items, never on
\* a pool thread; so the tracker update inside the batch's callback is never
\* made by two threads at once.
C21_CallbacksSerialOnCaller ==
    /\ Cardinality(cbRun) <= 1
    /\ \A c \in cbRun : c.thread = Caller
    /\ cbRun # {} <=> pc = "callback"

\* C21 witness: a callback is being invoked while a pool thread is still
\* executing another job, after an earlier callback has already returned.
C21_Witness ==
    /\ cbRun # {}
    /\ Running # {}
    /\ Len(cbLog) >= 2

====
